---- MODULE Spec2Model ----
(***************************************************************************)
(* Logistic-regression core of image_classification.py:                    *)
(* initialize_with_zeros, sigmoid, propagate, optimize, predict and model. *)
(*                                                                         *)
(* numpy's float64 numbers are modelled as fixed-point integers in units   *)
(* of 1/Scale, rounded to nearest after every multiplication or division.  *)
(* exp overflows to +inf above ExpMax and underflows to 0 below -ExpMax,   *)
(* log(0) is -inf and 0 * -inf is nan, as in IEEE arithmetic; only the     *)
(* thresholds differ from float64 (resolution 1/Scale instead of 2^-53).   *)
(* A numpy array is a record [rows, cols, at] with at indexed from <<1,1>>.*)
(* Python exceptions end a call in pc = "error" with err naming the class.  *)
(***************************************************************************)
EXTENDS Integers, Sequences, FiniteSets, TLC

\* ------------------------------------------------------------ bounds
MaxF == 2
MaxN == 3
MaxIter == 201

\* ------------------------------------------------- fixed-point reals
Scale == 1000
ExpMax == 6000
E1 == 2718
EInv1 == 368
Ln2 == 693
RecordEvery == 100

Half == Scale \div 2

\* a / b rounded to the nearest integer (b > 0)
RoundDiv(a, b) == (2 * a + b) \div (2 * b)

\* product of two fixed-point numbers
MulFix(a, b) == RoundDiv(a * b, Scale)

\* a float is [k |-> "num", v |-> n], or one of the non-finite values
Num(n) == [k |-> "num", v |-> n]
NaN == [k |-> "nan", v |-> 0]
PosInf == [k |-> "inf", v |-> 1]
NegInf == [k |-> "inf", v |-> -1]

\* Recursive helpers are functions, so that each argument is a value computed
\* once before the body is evaluated.

\* sum of the Taylor terms f^j / j! of exp(f), j = n .. 8; t = <<f, f^n/n!, n, acc>>
ExpSeries[t \in Int \X Int \X Int \X Int] ==
    IF t[3] > 8 \/ t[2] = 0 THEN t[4]
    ELSE ExpSeries[<<t[1], RoundDiv(t[2] * t[1], Scale * (t[3] + 1)),
                     t[3] + 1, t[4] + t[2]>>]

\* v multiplied k times by g (g = e or 1/e); t = <<v, k, g>>
ExpInt[t \in Int \X Int \X Int] ==
    IF t[2] = 0 \/ t[1] = 0 THEN t[1]
    ELSE ExpInt[<<MulFix(t[1], t[3]), t[2] - 1, t[3]>>]

\* np.exp(x): +inf on overflow, 0 on underflow
Exp[x \in Int] ==
    IF x > ExpMax THEN PosInf
    ELSE IF x < -ExpMax THEN Num(0)
    ELSE IF x >= 0
         THEN Num(ExpInt[<<ExpSeries[<<x % Scale, Scale, 0, 0>>], x \div Scale, E1>>])
         ELSE Num(ExpInt[<<ExpSeries[<<-((-x) % Scale), Scale, 0, 0>>],
                           (-x) \div Scale, EInv1>>])

\* s = 1 / (1 + np.exp(-z)) for a scalar z
sigmoid[z \in Int] ==
    IF Exp[-z].k = "inf" THEN 0 ELSE RoundDiv(Scale * Scale, Scale + Exp[-z].v)

\* the series 2 * (y + y^3/3 + y^5/5) of ln((1 + y) / (1 - y))
LnSeries[y \in Int] ==
    2 * (y + RoundDiv(MulFix(y, MulFix(y, y)), 3)
           + RoundDiv(MulFix(MulFix(y, MulFix(y, y)), MulFix(y, y)), 5))

\* ln(a / Scale) for 0 < a <= Scale: double a into (Scale/2, Scale], then the series
LnPos[a \in Int] ==
    IF 2 * a <= Scale THEN LnPos[2 * a] - Ln2
    ELSE LnSeries[RoundDiv((a - Scale) * Scale, a + Scale)]

\* np.log(a) for 0 <= a <= 1: -inf at 0 (numpy warns, it does not raise)
Log[a \in Int] == IF a = 0 THEN NegInf ELSE Num(LnPos[a])

\* y * f for an integer label y and a float f that is a number or -inf
MulLabel(y, f) ==
    IF f.k = "num" THEN Num(y * f.v)
    ELSE IF y = 0 THEN NaN
    ELSE IF y > 0 THEN f ELSE PosInf

\* f + g where neither is +inf
AddFloat(f, g) ==
    IF f.k = "nan" \/ g.k = "nan" THEN NaN
    ELSE IF f.k = "inf" \/ g.k = "inf" THEN
         (IF (f.k = "inf" /\ f.v > 0) \/ (g.k = "inf" /\ g.v > 0)
          THEN (IF (f.k = "inf" /\ f.v < 0) \/ (g.k = "inf" /\ g.v < 0) THEN NaN ELSE PosInf)
          ELSE NegInf)
    ELSE Num(f.v + g.v)

\* ------------------------------------------------------ numpy arrays
\* np.zeros((r, c))
zeros(r, c) == [rows |-> r, cols |-> c, at |-> [p \in (1..r) \X (1..c) |-> 0]]

Shape(M) == <<M.rows, M.cols>>

Positions(M) == (1..M.rows) \X (1..M.cols)

Float == [k : {"num", "nan", "inf"}, v : Int]

\* sum of a sequence of numbers
SumSeq[s \in Seq(Int)] == IF s = <<>> THEN 0 ELSE Head(s) + SumSeq[Tail(s)]

\* np.sum of a sequence of floats that may be nan or infinite
SumFloatSeq[s \in Seq(Float)] ==
    IF s = <<>> THEN Num(0) ELSE AddFloat(Head(s), SumFloatSeq[Tail(s)])

\* the entries of M in row-major order
Flat(M) ==
    [k \in 1..(M.rows * M.cols) |->
        M.at[<<((k - 1) \div M.cols) + 1, ((k - 1) % M.cols) + 1>>]]

\* numpy broadcasting of two 2-D arrays: each axis equal, or one of them 1
BroadcastOK(P, Q) ==
    /\ (P.rows = Q.rows \/ P.rows = 1 \/ Q.rows = 1)
    /\ (P.cols = Q.cols \/ P.cols = 1 \/ Q.cols = 1)

BroadcastRows(P, Q) == IF P.rows = 1 THEN Q.rows ELSE P.rows
BroadcastCols(P, Q) == IF P.cols = 1 THEN Q.cols ELSE P.cols

\* entry (i, j) of M stretched to a broadcast shape
BAt(M, i, j) ==
    M.at[<<IF M.rows = 1 THEN 1 ELSE i, IF M.cols = 1 THEN 1 ELSE j>>]

\* ------------------------------------------------------- propagate
Raise(e) ==
    [raises |-> e, dw |-> zeros(0, 0), db |-> 0, cost |-> NaN, A |-> zeros(0, 0)]

\* A = sigmoid(np.dot(w.T, X) + b), for w.rows = X.rows
Activation(w, b, X) ==
    [rows |-> w.cols, cols |-> X.cols,
     at |-> [p \in (1..w.cols) \X (1..X.cols) |->
                sigmoid[RoundDiv(SumSeq[[k \in 1..X.rows |->
                                           w.at[<<k, p[1]>>] * X.at[<<k, p[2]>>]]],
                                 Scale) + b]]]

\* Y * log(A) + (1 - Y) * log(1 - A) for one label and one activation
LossTerm(y, a) ==
    AddFloat(MulLabel(y, Log[a]), MulLabel(1 - y, Log[Scale - a]))

\* -1 / m * total
CostOf(total, m) ==
    IF total.k = "num" THEN Num(RoundDiv(-total.v, m))
    ELSE IF total.k = "nan" THEN NaN
    ELSE IF total.v < 0 THEN PosInf ELSE NegInf

\* A - Y, broadcast
Diff(A, Y) ==
    [rows |-> BroadcastRows(Y, A), cols |-> BroadcastCols(Y, A),
     at |-> [p \in (1..BroadcastRows(Y, A)) \X (1..BroadcastCols(Y, A)) |->
                BAt(A, p[1], p[2]) - Scale * BAt(Y, p[1], p[2])]]

\* np.multiply(Y, np.log(A)) + np.multiply(1 - Y, np.log(1 - A)), broadcast
Losses(A, Y) ==
    [rows |-> BroadcastRows(Y, A), cols |-> BroadcastCols(Y, A),
     at |-> [p \in (1..BroadcastRows(Y, A)) \X (1..BroadcastCols(Y, A)) |->
                LossTerm(BAt(Y, p[1], p[2]), BAt(A, p[1], p[2]))]]

\* (1 / m) * np.dot(X, D.T), for X.cols = D.cols
GradW(X, D, m) ==
    [rows |-> X.rows, cols |-> D.rows,
     at |-> [p \in (1..X.rows) \X (1..D.rows) |->
                RoundDiv(SumSeq[[k \in 1..X.cols |->
                                   X.at[<<p[1], k>>] * D.at[<<p[2], k>>]]],
                         Scale * m)]]

\* lines 127-138, given A and D = A - Y
Backward(w, X, Y, A, D) ==
    IF X.cols # D.cols THEN Raise("ValueError")
    ELSE IF <<X.rows, D.rows>> # Shape(w) THEN Raise("AssertionError")
    ELSE [raises |-> "",
          dw |-> GradW(X, D, X.cols),
          db |-> RoundDiv(SumSeq[Flat(D)], X.cols),
          cost |-> CostOf(SumFloatSeq[Flat(Losses(A, Y))], X.cols),
          A |-> A]

\* lines 123-138, given A
Forward(w, X, Y, A) ==
    IF X.cols = 0 THEN Raise("ZeroDivisionError")
    ELSE IF ~BroadcastOK(Y, A) THEN Raise("ValueError")
    ELSE CHOOSE r \in {Backward(w, X, Y, A, D) : D \in {Diff(A, Y)}} : TRUE

\* grads, cost = propagate(w, b, X, Y); raises names the exception, "" if none.
\* np.dot(w.T, X) raises when w.rows # X.rows; -1 / m raises when m = 0; the
\* elementwise products raise when Y and A do not broadcast; np.dot(X, (A - Y).T)
\* raises when the inner dimensions differ; then the assert on dw.shape.
\* (Each intermediate array is bound as the element of a singleton set.)
propagate(w, b, X, Y) ==
    IF w.rows # X.rows THEN Raise("ValueError")
    ELSE CHOOSE r \in {Forward(w, X, Y, A) : A \in {Activation(w, b, X)}} : TRUE

\* ----------------------------------------------------------- state
VARIABLES
    call,            \* the function the caller invoked
    pc,              \* position in it: start, loop, predict_loop, unpack, done, error
    heap,            \* the array objects: the caller's (w_arg, X, Y, X_test, Y_test)
                     \* and the one the local name w is rebound to (w_new)
    w,               \* the array object the local name w refers to
    b,               \* the local b
    dim,             \* argument of initialize_with_zeros
    num_iterations,  \* argument of optimize / model
    learning_rate,   \* argument of optimize / model
    i,               \* loop index of optimize / predict
    dw, db,          \* locals of optimize: <<>> while unbound, <<value>> once bound
    cost,            \* local of optimize: the last cost propagate returned
    costs,           \* list costs of optimize
    iterations,      \* list iterations of optimize
    A,               \* local A of predict
    Y_prediction,    \* local Y_prediction of predict
    ret,             \* the tuple the function returned, <<>> before it returns
    err,             \* the exception that ended the call, "" if none
    propagate_calls  \* number of calls of propagate made so far

vars == <<call, pc, heap, w, b, dim, num_iterations, learning_rate, i, dw, db, cost,
          costs, iterations, A, Y_prediction, ret, err, propagate_calls>>

\* value of the array the local name w refers to
W == heap[w]

NoArray == zeros(0, 0)

\* ---------------------------------------------------------- inputs
RECURSIVE Pow2(_)
Pow2(k) == IF k = 0 THEN 1 ELSE 2 * Pow2(k - 1)

\* feature matrix (r, c) of 0.0 / 1.0: column j holds the binary digits of j - 1
XData(r, c) ==
    [rows |-> r, cols |-> c,
     at |-> [p \in (1..r) \X (1..c) |->
                Scale * (((p[2] - 1) \div Pow2(r - p[1])) % 2)]]

\* label row (1, c) for r features: 1 where some digit of the column is 1
YData(r, c) ==
    [rows |-> 1, cols |-> c,
     at |-> [p \in (1..1) \X (1..c) |-> IF (p[2] - 1) % Pow2(r) # 0 THEN 1 ELSE 0]]

\* weight column (r, 1): all 0.0, or 1.0 and -1.0 alternating
WData(r, pat) ==
    [rows |-> r, cols |-> 1,
     at |-> [p \in (1..r) \X (1..1) |->
                IF pat = "zero" THEN 0 ELSE IF p[1] % 2 = 1 THEN Scale ELSE -Scale]]

XSet == {XData(r, c) : r \in 1..MaxF, c \in 1..MaxN}
YSet(X) == {YData(X.rows, c) : c \in 1..MaxN}
WSet == {WData(r, pat) : r \in 1..MaxF, pat \in {"zero", "alt"}}
BSet == {0, 7 * Scale}
LrSet == {-Half, 0, Scale \div 100, Half}
\* <<w, b, learning_rate>> of a call of optimize: zero parameters with every
\* rate, and nonzero weights with a bias large enough to saturate the sigmoid
TrainSet == {<<WData(r, "zero"), 0, lr>> : r \in 1..MaxF, lr \in LrSet}
            \cup {<<WData(r, "alt"), 7 * Scale, Half>> : r \in 1..MaxF}
NSet == {-1, 0, 1, MaxIter}
NSetModel == {-1, 0, 1, 2}
DimSet == -1..MaxF

Setup(c, d, wv, bv, X, Y, Xt, Yt, n, lr) ==
    /\ call = c
    /\ pc = "start"
    /\ heap = [w_arg |-> wv, w_new |-> NoArray, X |-> X, Y |-> Y,
               X_test |-> Xt, Y_test |-> Yt]
    /\ w = "w_arg"
    /\ b = bv
    /\ dim = d
    /\ num_iterations = n
    /\ learning_rate = lr
    /\ i = 0
    /\ dw = <<>>
    /\ db = <<>>
    /\ cost = Num(0)
    /\ costs = <<>>
    /\ iterations = <<>>
    /\ A = NoArray
    /\ Y_prediction = NoArray
    /\ ret = <<>>
    /\ err = ""
    /\ propagate_calls = 0

Init ==
    \/ \E d \in DimSet :
          Setup("initialize", d, NoArray, 0, NoArray, NoArray, NoArray, NoArray, 0, 0)
    \/ \E wv \in WSet, bv \in BSet, X \in XSet :
          \E Y \in YSet(X) :
             Setup("propagate", 0, wv, bv, X, Y, NoArray, NoArray, 0, 0)
    \/ \E p \in TrainSet, X \in XSet, n \in NSet :
          \E Y \in YSet(X) :
             Setup("optimize", 0, p[1], p[2], X, Y, NoArray, NoArray, n, p[3])
    \/ \E wv \in WSet, bv \in BSet, X \in XSet :
          Setup("predict", 0, wv, bv, X, NoArray, NoArray, NoArray, 0, 0)
    \/ \E X \in XSet, n \in NSetModel, lr \in LrSet :
          \E Y \in YSet(X) :
             Setup("model", 0, NoArray, 0, X, Y,
                   XData(X.rows, 1), YData(X.rows, 1), n, lr)

\* ------------------------------------------- initialize_with_zeros
\* np.zeros((dim, 1)) raises ValueError for a negative dimension; the two
\* asserts hold for every array it returns
initialize_with_zeros(d) ==
    IF d < 0 THEN [raises |-> "ValueError", w |-> NoArray, b |-> 0]
    ELSE [raises |-> "", w |-> zeros(d, 1), b |-> 0]

initialize_call ==
    /\ call = "initialize"
    /\ pc = "start"
    /\ \E r \in {initialize_with_zeros(dim)} :
          IF r.raises # ""
          THEN pc' = "error" /\ err' = r.raises /\ ret' = ret
          ELSE pc' = "done" /\ err' = err /\ ret' = <<r.w, r.b>>
    /\ UNCHANGED <<call, heap, w, b, dim, num_iterations, learning_rate, i, dw, db,
                   cost, costs, iterations, A, Y_prediction, propagate_calls>>

\* ----------------------------------------------------- propagate
propagate_call ==
    /\ call = "propagate"
    /\ pc = "start"
    /\ \E r \in {propagate(W, b, heap.X, heap.Y)} :
          IF r.raises # ""
          THEN pc' = "error" /\ err' = r.raises /\ ret' = ret
          ELSE pc' = "done" /\ err' = err
               /\ ret' = <<[dw |-> r.dw, db |-> r.db], r.cost>>
    /\ propagate_calls' = propagate_calls + 1
    /\ UNCHANGED <<call, heap, w, b, dim, num_iterations, learning_rate, i, dw, db,
                   cost, costs, iterations, A, Y_prediction>>

\* ------------------------------------------------------- optimize
\* p - learning_rate * g
descend(p, lr, g) == p - MulFix(lr, g)

\* w - learning_rate * dw, elementwise
descend_array(wv, lr, g) ==
    [rows |-> wv.rows, cols |-> wv.cols,
     at |-> [p \in Positions(wv) |-> descend(wv.at[p], lr, g.at[p])]]

\* variant of optimize_body: the bias step takes its gradient from a second
\* propagate call made on the already updated w
optimize_body_sequential(wv, bv, X, Y, lr) ==
    CHOOSE u \in
        {IF r.raises # "" THEN [raises |-> r.raises, w |-> wv, b |-> bv,
                                dw |-> r.dw, db |-> r.db, cost |-> r.cost]
         ELSE [raises |-> "", w |-> descend_array(wv, lr, r.dw),
               b |-> descend(bv, lr,
                             propagate(descend_array(wv, lr, r.dw), bv, X, Y).db),
               dw |-> r.dw, db |-> r.db, cost |-> r.cost]
         : r \in {propagate(wv, bv, X, Y)}} : TRUE

\* lines 169-178 on the values w, b: one propagate call, then both updates
update_rule(wv, bv, lr, r) ==
    IF r.raises # "" THEN [raises |-> r.raises, w |-> wv, b |-> bv,
                           dw |-> r.dw, db |-> r.db, cost |-> r.cost]
    ELSE [raises |-> "", w |-> descend_array(wv, lr, r.dw),
          b |-> descend(bv, lr, r.db),
          dw |-> r.dw, db |-> r.db, cost |-> r.cost]

optimize_body(wv, bv, X, Y, lr) ==
    CHOOSE u \in {update_rule(wv, bv, lr, r) : r \in {propagate(wv, bv, X, Y)}} : TRUE

\* variant of store_w: w -= learning_rate * dw, written into the array w names
store_w_inplace(h, ref, val) == [heap |-> [h EXCEPT ![ref] = val], w |-> ref]

\* w = w - learning_rate * dw: the difference is a new array and the local
\* name w is rebound to it; the array w named before is not written
store_w(h, ref, val) == [heap |-> [h EXCEPT !.w_new = val], w |-> "w_new"]

\* variant of loop_has_next: the loop also stops once the cost is not finite
loop_stops_on_nonfinite == i < num_iterations /\ cost.k = "num"

\* variant of record_now: the sample is taken at the end of each block of 100
record_at_block_end == (i + 1) % RecordEvery = 0

\* for i in range(num_iterations): the loop runs while the range has an index left
loop_has_next == i < num_iterations

\* if i % 100 == 0
record_now == i % RecordEvery = 0

\* lines 162-165, entered from the caller or from line 258 of model
optimize_enter ==
    /\ pc = IF call = "model" THEN "call_optimize" ELSE "start"
    /\ call \in {"optimize", "model"}
    /\ pc' = "loop"
    /\ costs' = <<>>
    /\ iterations' = <<>>
    /\ i' = 0
    /\ UNCHANGED <<call, heap, w, b, dim, num_iterations, learning_rate, dw, db,
                   cost, A, Y_prediction, ret, err, propagate_calls>>

optimize_iterate ==
    /\ pc = "loop"
    /\ loop_has_next
    /\ propagate_calls' = propagate_calls + 1
    /\ \E r \in {optimize_body(W, b, heap.X, heap.Y, learning_rate)} :
          IF r.raises # ""
          THEN /\ pc' = "error"
               /\ err' = r.raises
               /\ UNCHANGED <<heap, w, b, i, dw, db, cost, costs, iterations>>
          ELSE /\ \E s \in {store_w(heap, w, r.w)} : heap' = s.heap /\ w' = s.w
               /\ b' = r.b
               /\ dw' = <<r.dw>>
               /\ db' = <<r.db>>
               /\ cost' = r.cost
               /\ costs' = IF record_now THEN Append(costs, r.cost) ELSE costs
               /\ iterations' = IF record_now THEN Append(iterations, i)
                                ELSE iterations
               /\ i' = i + 1
               /\ UNCHANGED <<pc, err>>
    /\ UNCHANGED <<call, dim, num_iterations, learning_rate, A, Y_prediction, ret>>

\* lines 189-195: reading dw raises UnboundLocalError when the loop never ran
optimize_return ==
    /\ pc = "loop"
    /\ ~loop_has_next
    /\ IF dw = <<>>
       THEN pc' = "error" /\ err' = "UnboundLocalError" /\ ret' = ret
       ELSE /\ pc' = IF call = "model" THEN "unpack" ELSE "done"
            /\ err' = err
            /\ ret' = <<[w |-> W, b |-> b], [dw |-> dw[1], db |-> db[1]],
                        costs, iterations>>
    /\ UNCHANGED <<call, heap, w, b, dim, num_iterations, learning_rate, i, dw, db,
                   cost, costs, iterations, A, Y_prediction, propagate_calls>>

\* -------------------------------------------------------- predict
\* w.reshape(r, c) is defined when the number of elements is kept
ReshapeOK(M, r, c) == M.rows * M.cols = r * c

\* the elements of M in row-major order, laid out as (r, c)
Reshape(M, r, c) ==
    [rows |-> r, cols |-> c,
     at |-> [p \in (1..r) \X (1..c) |-> Flat(M)[(p[1] - 1) * c + p[2]]]]

\* variant of threshold: ties go to class 1
threshold_ge(a) == a >= Half

\* if A[0, i] > 0.5
threshold(a) == a > Half

\* lines 213-219; w.reshape gives a view, no array object is written
predict_enter ==
    /\ call = "predict"
    /\ pc = "start"
    /\ IF ~ReshapeOK(W, heap.X.rows, 1)
       THEN /\ pc' = "error"
            /\ err' = "ValueError"
            /\ UNCHANGED <<A, Y_prediction, i>>
       ELSE /\ pc' = "predict_loop"
            /\ err' = err
            /\ \E v \in {Reshape(W, heap.X.rows, 1)} : A' = Activation(v, b, heap.X)
            /\ Y_prediction' = zeros(1, heap.X.cols)
            /\ i' = 0
    /\ UNCHANGED <<call, heap, w, b, dim, num_iterations, learning_rate, dw, db,
                   cost, costs, iterations, ret, propagate_calls>>

\* lines 221-228, one column
predict_iterate ==
    /\ pc = "predict_loop"
    /\ i < A.cols
    /\ Y_prediction' =
          [Y_prediction EXCEPT !.at[<<1, i + 1>>] =
              IF threshold(A.at[<<1, i + 1>>]) THEN 1 ELSE 0]
    /\ i' = i + 1
    /\ UNCHANGED <<call, pc, heap, w, b, dim, num_iterations, learning_rate, dw, db,
                   cost, costs, iterations, A, ret, err, propagate_calls>>

\* lines 230-232
predict_return ==
    /\ pc = "predict_loop"
    /\ ~(i < A.cols)
    /\ IF Shape(Y_prediction) # <<1, heap.X.cols>>
       THEN pc' = "error" /\ err' = "AssertionError" /\ ret' = ret
       ELSE pc' = "done" /\ err' = err /\ ret' = <<Y_prediction>>
    /\ UNCHANGED <<call, heap, w, b, dim, num_iterations, learning_rate, i, dw, db,
                   cost, costs, iterations, A, Y_prediction, propagate_calls>>

\* ---------------------------------------------------------- model
\* line 255: w, b = initialize_with_zeros(X_train.shape[0])
model_initialize ==
    /\ call = "model"
    /\ pc = "start"
    /\ \E r \in {initialize_with_zeros(heap.X.rows)} :
          IF r.raises # ""
          THEN pc' = "error" /\ err' = r.raises /\ UNCHANGED <<heap, b>>
          ELSE /\ pc' = "call_optimize"
               /\ err' = err
               /\ heap' = [heap EXCEPT !.w_arg = r.w]
               /\ b' = r.b
    /\ UNCHANGED <<call, w, dim, num_iterations, learning_rate, i, dw, db, cost,
                   costs, iterations, A, Y_prediction, ret, propagate_calls>>

\* line 258: parameters, grads, costs = optimize(...) unpacks the returned tuple
\* into three names. optimize returns four values, so the unpacking raises and
\* lines 261-319 (predict on both sets, the accuracies, d, the plot) never run.
model_unpack ==
    /\ pc = "unpack"
    /\ IF Len(ret) # 3
       THEN pc' = "error" /\ err' = "ValueError"
       ELSE pc' = "unpacked" /\ err' = err
    /\ UNCHANGED <<call, heap, w, b, dim, num_iterations, learning_rate, i, dw, db,
                   cost, costs, iterations, A, Y_prediction, ret, propagate_calls>>

\* --------------------------------------------------- specification
Next ==
    \/ initialize_call
    \/ propagate_call
    \/ optimize_enter
    \/ optimize_iterate
    \/ optimize_return
    \/ predict_enter
    \/ predict_iterate
    \/ predict_return
    \/ model_initialize
    \/ model_unpack

Spec == Init /\ [][Next]_vars

Terminated == pc \in {"done", "error"}

\* ------------------------------------------------------ properties
\* the arguments satisfy the data model: w is (F, 1), X is (F, N), Y is (1, N)
WellShaped ==
    /\ heap.w_arg.rows = heap.X.rows
    /\ heap.w_arg.cols = 1
    /\ heap.Y.rows = 1
    /\ heap.Y.cols = heap.X.cols

\* w.rows differs from X.rows, or Y's label columns from X's columns
ShapeViolation ==
    \/ heap.w_arg.rows # heap.X.rows
    \/ (call \in {"propagate", "optimize"} /\ heap.Y.cols # heap.X.cols)

ValidHyper == num_iterations >= 0 /\ learning_rate > 0

\* the training set satisfies the data model (in model, w is made by line 255)
TrainingShaped ==
    /\ heap.Y.rows = 1
    /\ heap.Y.cols = heap.X.cols
    /\ call = "optimize" => (heap.w_arg.rows = heap.X.rows /\ heap.w_arg.cols = 1)

\* C1: for a well-shaped training set and valid hyperparameters, model runs
\* initialize, optimize, predict, accuracy and returns the trained model; it
\* never ends with an error.  Stated for num_iterations >= 1, which keeps the
\* failure of optimize at num_iterations = 0 (C3) apart: the violation left is
\* the unpacking at line 258 (model_unpack).
C1_ModelReturns ==
    (call = "model" /\ TrainingShaped /\ ValidHyper /\ num_iterations >= 1)
        => pc # "error"

\* number of steps optimize can still take: none once it has ended, else the
\* return, the indices the range has left and, before the loop, its entry
StepsLeft ==
    IF Terminated THEN 0
    ELSE (IF pc = "start" THEN 2 ELSE 1)
         + (IF i < num_iterations THEN num_iterations - i ELSE 0)

\* at the end of a well-shaped run with num_iterations >= 0 every index of the
\* range has had its propagate-then-update step, and while looping one per index
StepCount ==
    (WellShaped /\ num_iterations >= 0)
        => /\ pc = "loop" => propagate_calls = i
           /\ Terminated => (propagate_calls = num_iterations /\ i = num_iterations)

\* C2: optimize terminates (until it has ended it can always take a step, and
\* every step lowers the bounded count of steps left), and for well-shaped
\* arguments and num_iterations >= 0 it has made exactly num_iterations
\* propagate-then-update steps when it ends, whatever the cost values were.
C2_ExactlyNumIterations ==
    /\ []((call = "optimize") => ((Terminated \/ ENABLED Next) /\ StepCount))
    /\ [][(call = "optimize") => StepsLeft' < StepsLeft]_vars

C2_Witness ==
    /\ call = "optimize"
    /\ WellShaped
    /\ Terminated
    /\ num_iterations = MaxIter
    /\ propagate_calls = MaxIter
    /\ \E k \in 1..Len(costs) : costs[k].k # "num"

\* C3: optimize with num_iterations = 0 returns normally, with the parameters
\* it was given and an empty cost history.  (The code raises UnboundLocalError.)
C3_ZeroIterationsReturn ==
    (call = "optimize" /\ WellShaped /\ learning_rate > 0 /\ num_iterations = 0
       /\ Terminated)
        => /\ pc = "done"
           /\ ret[1] = [w |-> heap.w_arg, b |-> b]
           /\ ret[3] = <<>>

\* C4: predict returns an array of shape (1, N) of zeros and ones, whose entry
\* i is 1 exactly when sigmoid(w^T X[:, i] + b) > 0.5; an activation of
\* exactly 0.5 gives 0.
C4_PredictThreshold ==
    (call = "predict" /\ pc = "done")
        => /\ Len(ret) = 1
           /\ Shape(ret[1]) = <<1, heap.X.cols>>
           /\ DOMAIN ret[1].at = {1} \X (1..heap.X.cols)
           /\ \A j \in 1..heap.X.cols :
                 \E a \in {sigmoid[RoundDiv(
                              SumSeq[[k \in 1..heap.X.rows |->
                                  heap.w_arg.at[<<k, 1>>] * heap.X.at[<<k, j>>]]],
                              Scale) + b]} :
                    /\ ret[1].at[<<1, j>>] \in {0, 1}
                    /\ ret[1].at[<<1, j>>] = 1 <=> a > Half
                    /\ a = Half => ret[1].at[<<1, j>>] = 0

C4_Witness ==
    /\ call = "predict"
    /\ pc = "done"
    /\ \E j \in 1..heap.X.cols : A.at[<<1, j>>] = Half /\ ret[1].at[<<1, j>>] = 0
    /\ \E j \in 1..heap.X.cols : A.at[<<1, j>>] > Half /\ ret[1].at[<<1, j>>] = 1
    /\ \E j \in 1..heap.X.cols : A.at[<<1, j>>] < Half /\ ret[1].at[<<1, j>>] = 0

\* C5: propagate, optimize and predict never return a result when w.rows
\* differs from X.rows or Y's columns differ from X's columns.  (propagate
\* broadcasts a one-column Y over all the columns of X and returns.)
C5_ShapeMismatchFails ==
    (call \in {"propagate", "optimize", "predict"} /\ ShapeViolation) => pc # "done"

\* C6: with a non-positive learning rate or a negative iteration count,
\* optimize (also when called by model) fails before any iteration: propagate
\* is never called, no parameter is updated, no result is returned.  Any
\* exception counts as the failure here.  (The code checks neither argument.)
C6_InvalidHyperparameterRejected ==
    (call \in {"optimize", "model"} /\ TrainingShaped /\ ~ValidHyper)
        => /\ propagate_calls = 0
           /\ w = "w_arg"
           /\ pc # "done"

\* C7: initialize_with_zeros(dim) returns a (dim, 1) array of zeros and b = 0
\* for dim > 0, and fails for dim <= 0.  (For dim = 0 the code returns.)
C7_InitializeContract ==
    (call = "initialize" /\ Terminated)
        => IF dim > 0
           THEN pc = "done" /\ ret = <<zeros(dim, 1), 0>>
           ELSE pc = "error"

\* one sample per index below i that is a multiple of 100, in increasing order
HistoryShape ==
    /\ Len(costs) = (i + RecordEvery - 1) \div RecordEvery
    /\ Len(iterations) = Len(costs)
    /\ \A j \in 1..Len(iterations) : iterations[j] = RecordEvery * (j - 1)

\* a step keeps the samples already taken; an iteration at a multiple of 100
\* appends the cost of the parameters it started from, any other appends nothing
HistoryStep ==
    /\ Len(costs') >= Len(costs)
    /\ SubSeq(costs', 1, Len(costs)) = costs
    /\ SubSeq(iterations', 1, Len(iterations)) = iterations
    /\ (i' = i + 1 /\ i % RecordEvery = 0)
          => /\ iterations' = Append(iterations, i)
             /\ costs' = Append(costs, propagate(W, b, heap.X, heap.Y).cost)
    /\ (i' = i + 1 /\ i % RecordEvery # 0)
          => costs' = costs /\ iterations' = iterations

\* C8: after k iterations the cost history holds one sample per index i < k
\* with i mod 100 = 0, in increasing order; samples are only appended; the
\* sample for index i is the cost propagate returns for the parameters as
\* they are before the update of iteration i.
C8_CostHistory ==
    /\ [](call \in {"optimize", "model"} => HistoryShape)
    /\ [][(call \in {"optimize", "model"}) => HistoryStep]_vars

C8_Witness ==
    /\ call = "optimize"
    /\ pc = "done"
    /\ Len(iterations) = 3
    /\ iterations[2] = RecordEvery
    /\ iterations[3] = 2 * RecordEvery
    /\ costs[1] # costs[2]
    /\ costs[2] # costs[3]

\* the step's new parameters are the old ones moved along the gradients at the
\* old ones
UpdatedFromOneCall ==
    \A r \in {propagate(W, b, heap.X, heap.Y)} :
       /\ r.raises = ""
       /\ heap'[w'].rows = W.rows
       /\ heap'[w'].cols = W.cols
       /\ \A p \in (1..W.rows) \X (1..W.cols) :
             heap'[w'].at[p] = W.at[p] - MulFix(learning_rate, r.dw.at[p])
       /\ b' = b - MulFix(learning_rate, r.db)
       /\ dw' = <<r.dw>>
       /\ db' = <<r.db>>

\* C9: an iteration updates w and b from one propagate call on the
\* parameters as they are before the update: w' = w - learning_rate * dw and
\* b' = b - learning_rate * db with (dw, db) the gradients at (w, b).
C9_SimultaneousUpdate ==
    [][(pc = "loop" /\ i' = i + 1) => UpdatedFromOneCall]_vars

C9_Witness ==
    /\ call = "optimize"
    /\ pc = "loop"
    /\ i >= 2
    /\ learning_rate > 0
    /\ db # <<>>
    /\ db[1] # 0
    /\ \E p \in DOMAIN dw[1].at : dw[1].at[p] # 0
    /\ \E p \in DOMAIN W.at : W.at[p] # heap.w_arg.at[p]

CallerArraysKept ==
    /\ heap'.w_arg = heap.w_arg
    /\ heap'.X = heap.X
    /\ heap'.Y = heap.Y

\* C10: propagate, optimize and predict leave the caller's arrays X, Y and w
\* as they were, at every step.
C10_InputsUnchanged ==
    [][(call \in {"propagate", "optimize", "predict"}) => CallerArraysKept]_vars

C10_Witness ==
    /\ call = "optimize"
    /\ pc = "done"
    /\ i = MaxIter
    /\ ret[1].w # heap.w_arg
    /\ \E p \in DOMAIN heap.w_arg.at : heap.w_arg.at[p] # 0

====
